---- MODULE Spec2Model ----
(***************************************************************************)
(* A state-machine model of the document and subscription front-end:       *)
(*   - the AddDocument dialog (entry form, submit flow: sequential file    *)
(*     uploads, then sequential row inserts)   src/pages/document/AddDocument.tsx *)
(*   - the ShareModal share flow               (same file, second module)  *)
(*   - the Login credential check              src/pages/Login.tsx         *)
(* JavaScript runs a handler to its next `await` without interruption, so  *)
(* one action of the model is one such run: from a user event or from the  *)
(* completion of an awaited call up to the next await (or the return).     *)
(***************************************************************************)
EXTENDS Integers, Sequences, FiniteSets, TLC

\* ------------------------------------------------------------------------
\* Values
\* ------------------------------------------------------------------------

\* JavaScript's null and undefined, kept apart from every string of the model.
Null == "<null>"
Undefined == "<undefined>"

\* JavaScript truthiness of a string-or-null value (x || "", if (x) ...).
Truthy(x) == x \notin {"", Null, Undefined}

\* x || d
OrElse(x, d) == IF Truthy(x) THEN x ELSE d

\* String.prototype.toLowerCase on the strings of the model.
ToLowerCase(s) ==
  CASE s = "ACME"    -> "acme"
    [] s = "Acme"    -> "acme"
    [] s = "Admin"   -> "admin"
    [] s = "ADMIN"   -> "admin"
    [] s = "Manager" -> "manager"
    [] s = "User"    -> "user"
    [] OTHER         -> s

\* String.prototype.trim on the strings of the model.
Trim(s) ==
  CASE s = " "         -> ""
    [] s = " alice "   -> "alice"
    [] s = " Alice "   -> "Alice"
    [] s = "alice "    -> "alice"
    [] s = " pw1 "     -> "pw1"
    [] s = " Deleted " -> "Deleted"
    [] s = " Dashboard" -> "Dashboard"
    [] s = " Loan "    -> "Loan"
    [] s = " a@b.c "   -> "a@b.c"
    [] OTHER           -> s

\* ------------------------------------------------------------------------
\* Bounds of the model and constants of the program
\* ------------------------------------------------------------------------

\* addEntry's limit on the number of entries of the form.
MAX_ENTRIES == 10

\* Events explored on top of the prepared form: user events (addEntry,
\* removeEntry, handleChange, handleFileChange, close) and remote calls of the
\* document flow that fail or answer incompletely.
MaxEvents == 2

\* Submit flows started.
MaxFlows == 2

\* Length of the prepared forms whose optional fields and files vary; the files
\* are on the entries fileFirst .. RichLen.
RichLen == 3

\* User edits, removals and file attachments target the first EditSpan entries.
EditSpan == 1

\* ------------------------------------------------------------------------
\* State
\* ------------------------------------------------------------------------

VARIABLES
  \* AddDocument component
  entries,        \* useState: the form's entries
  isSubmitting,   \* useState: busy flag of the submit flow
  isOpen,         \* prop: the dialog is shown
  folderId,       \* import.meta.env.VITE_GOOGLE_DRIVE_FOLDER_ID
  \* the running handleSubmit invocation (its closure and locals)
  pc,             \* "idle" | "delay" | "uploadWait" | "insertWait"
  idx,            \* loop index (1-based) of the awaited step
  fEntries,       \* entries as captured by the handler's closure
  fMaster,        \* masterData as captured by the handler's closure
  uploadResults,  \* local: per-index upload results
  newDocuments,   \* local: DocumentItems built so far
  \* data store (useDataStore)
  documents, masterData, shareHistory,
  \* remote endpoint and what the front-end has sent to it
  sheet,          \* rows of the Documents sheet committed by inserts
  outstanding,    \* remote requests issued and not yet answered
  trace,          \* delays waited and requests issued by the current flow
  insertReqs,     \* rows sent by the insert requests of the current flow
  toast,          \* last toast shown
  docsAtSubmit,   \* history: the document store when the current flow began
  insertFailedAt, \* history: the entry whose insert request failed, or 0
  insertResps,    \* history: the serial each answered insert of the flow
                  \* carried ("" if none)
  closedAt,       \* history: the length of the trace when the dialog was
                  \* closed during the current flow, or -1
  \* exploration budgets
  uiOps, faults, flows,
  \* Login component
  build,          \* which side of the file's merge conflict is built
  scriptUrl,      \* import.meta.env.VITE_GOOGLE_SCRIPT_URL
  lgTable,        \* the rows the endpoint serves for sheet "Pass" (header first)
  username, password, isLoading,   \* useState
  lgPc,           \* "idle" | "fetch"
  lgCreds,        \* username and password as captured by the handler's closure
  authUser,       \* authStore: the authenticated user, or NoUser
  navigated,      \* navigate("/") was called
  lgFetches,      \* credentials fetches issued
  lgToast,        \* last toast of the login page
  lgOps,          \* exploration budget: login page events
  \* ShareModal component
  shOpen, shType, shIsBatch, shBatch, shDoc,       \* props
  recipientName, shEmail, shWhatsapp, isSending, emailSent,   \* useState
  shPc,           \* "idle" | "emailWait"
  fShareLen,      \* shareHistory.length as captured by the handler's closure
  shLogs,         \* share-activity log requests in flight
  shLogReqs,      \* share-activity log requests issued, in order
  shEmailReqs,    \* email send requests issued
  shCloseTimers,  \* pending setTimeout(close, 1500) callbacks
  shToast,        \* last toast of the share dialog
  now,            \* Date.now(), in events
  shShares, shOps \* exploration budgets: share submits, other share events

docVars == <<entries, isSubmitting, isOpen, folderId, pc, idx, fEntries, fMaster,
             uploadResults, newDocuments, documents, masterData, sheet, trace,
             insertReqs, toast, docsAtSubmit, insertFailedAt,
             insertResps, closedAt, uiOps, faults,
             flows>>
loginVars == <<build, scriptUrl, lgTable, username, password, isLoading, lgPc,
               lgCreds, authUser, navigated, lgFetches, lgToast, lgOps>>
shareVars == <<shOpen, shType, shIsBatch, shBatch, shDoc, recipientName, shEmail,
               shWhatsapp, isSending, emailSent, shPc, fShareLen, shLogs,
               shLogReqs, shEmailReqs, shCloseTimers, shToast, now, shShares,
               shOps, shareHistory>>
vars == <<docVars, loginVars, shareVars, outstanding>>

\* ------------------------------------------------------------------------
\* AddDocument: the entry form
\* ------------------------------------------------------------------------

\* The entry of useState's initial value and of the reset after a submit.
BlankEntry(id) ==
  [ id |-> id, documentName |-> "", documentType |-> "", category |-> "",
    name |-> "", companyName |-> "", needsRenewal |-> FALSE, renewalDate |-> "",
    file |-> Null, fileName |-> "", fileContent |-> Undefined, issueDate |-> "",
    concernPersonName |-> "", concernPersonMobile |-> "",
    concernPersonDepartment |-> "" ]

\* Math.random().toString(): an id no entry of the list carries.
NewId(es) ==
  CHOOSE n \in 1..(Len(es) + 1) :
    /\ \A k \in DOMAIN es : es[k].id # n
    /\ \A m \in 1..(n - 1) : \E k \in DOMAIN es : es[k].id = m

\* handleChange's state update.
ChangeField(es, id, field, value) ==
  [k \in DOMAIN es |->
     IF es[k].id = id THEN [es[k] EXCEPT ![field] = value] ELSE es[k]]

\* The state update of handleFileChange's onloadend callback.
AttachFile(es, id) ==
  [k \in DOMAIN es |->
     IF es[k].id = id
       THEN [es[k] EXCEPT !.file = "File", !.fileName = "scan.pdf",
                          !.fileContent = "data:base64"]
       ELSE es[k]]

\* addEntry's new entry: the last entry without its document name and file.
CopiedEntry(es) ==
  LET lastEntry == es[Len(es)] IN
  [ id |-> NewId(es), documentName |-> "",
    documentType |-> OrElse(lastEntry.documentType, ""),
    category |-> OrElse(lastEntry.category, ""),
    name |-> OrElse(lastEntry.name, ""),
    companyName |-> OrElse(lastEntry.companyName, ""),
    needsRenewal |-> lastEntry.needsRenewal,
    renewalDate |-> OrElse(lastEntry.renewalDate, ""),
    file |-> Null, fileName |-> "", fileContent |-> Undefined,
    issueDate |-> OrElse(lastEntry.issueDate, ""),
    concernPersonName |-> OrElse(lastEntry.concernPersonName, ""),
    concernPersonMobile |-> OrElse(lastEntry.concernPersonMobile, ""),
    concernPersonDepartment |-> OrElse(lastEntry.concernPersonDepartment, "") ]

\* Mutant of FormFull: the limit is off by one.
FormFullOffByOne(es) == Len(es) > MAX_ENTRIES

\* addEntry's guard: the form is full.
FormFull(es) == Len(es) >= MAX_ENTRIES

\* Mutant of OnlyEntry: the guard never holds for a form with an entry.
OnlyEntryOffByOne(es) == Len(es) = 0

\* removeEntry's guard: the form holds its only entry.
OnlyEntry(es) == Len(es) = 1

\* removeEntry's state update.
WithoutEntry(es, id) == SelectSeq(es, LAMBDA item : item.id # id)

\* ------------------------------------------------------------------------
\* AddDocument.handleSubmit: pure parts
\* ------------------------------------------------------------------------

\* Mutant of ValidationError: the document name is tested without trim.
ValidationErrorNoTrim(es, k) ==
  IF \E j \in k..Len(es) : ~Truthy(es[j].documentName)
    THEN "Please fill Document Name for all entries."
  ELSE IF \E j \in k..Len(es) : es[j].needsRenewal /\ ~Truthy(es[j].renewalDate)
    THEN "Please select a renewal date for entries that need renewal."
  ELSE ""

\* The validation loop: the toast of the first entry that fails, "" if none.
RECURSIVE ValidationError(_, _)
ValidationError(es, k) ==
  IF k > Len(es) THEN ""
  ELSE IF ~Truthy(es[k].documentName) \/ Trim(es[k].documentName) = ""
    THEN "Please fill Document Name for all entries."
  ELSE IF es[k].needsRenewal /\ ~Truthy(es[k].renewalDate)
    THEN "Please select a renewal date for entries that need renewal."
  ELSE ValidationError(es, k + 1)

\* The upload loop's condition for issuing an upload request for an entry.
HasUpload(entry, folder) ==
  Truthy(entry.file) /\ Truthy(entry.fileContent) /\ Truthy(folder)

\* The upload loop from entry i up to its next await: entries without an
\* upload push a null result; idx is the entry whose upload comes next, or
\* Len(es) + 1 when the loop has ended.
RECURSIVE SkipToUpload(_, _, _, _)
SkipToUpload(es, i, results, folder) ==
  IF i > Len(es) THEN [idx |-> i, results |-> results]
  ELSE IF HasUpload(es[i], folder) THEN [idx |-> i, results |-> results]
  ELSE SkipToUpload(es, i + 1,
                    Append(results, [index |-> i, fileUrl |-> Null]), folder)

\* The delay precedes the upload of every entry but the one at index 0.
DelayBefore(i) == i > 1

\* uploadResults.find(r => r.index === index)?.fileUrl || ""
FileUrlOf(results, index) ==
  LET hits == SelectSeq(results, LAMBDA r : r.index = index) IN
  IF hits = <<>> THEN "" ELSE OrElse(hits[1].fileUrl, "")

\* The master-data condition: name, type and category are all filled.
MasterEligible(entry) ==
  Truthy(entry.name) /\ Truthy(entry.documentType) /\ Truthy(entry.category)

\* masterData.some(...): a case-insensitive match of the triple.
MasterExists(md, entry) ==
  \E k \in DOMAIN md :
    /\ ToLowerCase(md[k].companyName) = ToLowerCase(entry.name)
    /\ ToLowerCase(md[k].documentType) = ToLowerCase(entry.documentType)
    /\ ToLowerCase(md[k].category) = ToLowerCase(entry.category)

\* The store's addMasterData: appends the item.
addMasterData(md, item) == Append(md, item)

\* The store's addDocuments: appends the documents in order.
addDocuments(docs, new) == docs \o new

\* The master-data step of the insert loop for one entry: the check reads the
\* masterData of the handler's closure (fm), the append goes to the store (md).
MasterStep(md, fm, entry) ==
  IF MasterEligible(entry) /\ ~MasterExists(fm, entry)
    THEN addMasterData(md, [companyName |-> entry.name,
                            documentType |-> entry.documentType,
                            category |-> entry.category])
    ELSE md

\* `${entry.renewalDate} ${hours}:${minutes}` (the clock reads 09:30).
FormatRenewalDate(d) == IF Truthy(d) THEN d \o " 09:30" ELSE ""

\* The row of the insert request (columns A..Q; J, K, L are null).
SheetData(entry, fileUrl) ==
  [ Timestamp |-> "now", SerialNo |-> "",
    DocumentName |-> entry.documentName,
    DocumentType |-> OrElse(entry.documentType, ""),
    Category |-> OrElse(entry.category, ""),
    Name |-> OrElse(entry.name, ""),
    NeedRenewal |-> IF entry.needsRenewal THEN "Yes" ELSE "No",
    RenewalDate |-> FormatRenewalDate(entry.renewalDate),
    Image |-> OrElse(fileUrl, ""),
    issueDate |-> IF Truthy(entry.issueDate) THEN entry.issueDate ELSE "",
    concernPersonName |-> OrElse(entry.concernPersonName, ""),
    concernPersonMobile |-> OrElse(entry.concernPersonMobile, ""),
    concernPersonDepartment |-> OrElse(entry.concernPersonDepartment, ""),
    CompanyName |-> OrElse(entry.companyName, "") ]

\* Mutant of DocumentItem: the serial number of the response is stored as it
\* is, without the placeholder.
DocumentItemNoDefault(entry, fileUrl, serverResponseSN) ==
  [ sn |-> serverResponseSN,
    documentName |-> entry.documentName,
    companyName |-> OrElse(entry.name, ""),
    pName |-> OrElse(entry.name, ""),
    documentType |-> OrElse(entry.documentType, ""),
    category |-> OrElse(entry.category, ""),
    needsRenewal |-> entry.needsRenewal,
    renewalDate |-> IF entry.needsRenewal THEN entry.renewalDate ELSE Undefined,
    file |-> OrElse(entry.fileName, Null),
    fileContent |-> OrElse(fileUrl, Undefined),
    status |-> "Active",
    issueDate |-> entry.issueDate,
    companyBranch |-> OrElse(entry.companyName, "") ]

\* The DocumentItem pushed to newDocuments after an insert has succeeded.
DocumentItem(entry, fileUrl, serverResponseSN) ==
  [ sn |-> OrElse(serverResponseSN, "Pending"),
    documentName |-> entry.documentName,
    companyName |-> OrElse(entry.name, ""),
    pName |-> OrElse(entry.name, ""),
    documentType |-> OrElse(entry.documentType, ""),
    category |-> OrElse(entry.category, ""),
    needsRenewal |-> entry.needsRenewal,
    renewalDate |-> IF entry.needsRenewal THEN entry.renewalDate ELSE Undefined,
    file |-> OrElse(entry.fileName, Null),
    fileContent |-> OrElse(fileUrl, Undefined),
    status |-> "Active",
    issueDate |-> entry.issueDate,
    companyBranch |-> OrElse(entry.companyName, "") ]

\* The remote endpoint: the serial number it assigns to its n-th row, and the
\* URL it returns for the file uploaded for entry i.
SerialNo(n) == "SN-" \o ToString(n)
FileUrl(i) == "https://drive/file-" \o ToString(i)

\* ------------------------------------------------------------------------
\* AddDocument.handleSubmit: the flow between awaits
\* ------------------------------------------------------------------------

\* The insert loop's body for entry k up to its await: the master-data step,
\* the payload, the insert request.
BeginInsert(es, k, results, md, fm, tr, reqs) ==
  [ pc |-> "insertWait", idx |-> k, uploadResults |-> results,
    masterData |-> MasterStep(md, fm, es[k]),
    trace |-> Append(tr, [kind |-> "insert", index |-> k]),
    insertReqs |-> Append(reqs, SheetData(es[k], FileUrlOf(results, k))),
    sent |-> 1 ]

\* The upload loop from entry i up to the next await: the delay or the upload
\* request of the next entry with a file or, the loop over, the first insert.
BeginUpload(es, i, results, md, fm, tr, reqs, folder) ==
  LET s == SkipToUpload(es, i, results, folder) IN
  IF s.idx > Len(es)
    THEN BeginInsert(es, 1, s.results, md, fm, tr, reqs)
  ELSE IF DelayBefore(s.idx)
    THEN [ pc |-> "delay", idx |-> s.idx, uploadResults |-> s.results,
           masterData |-> md,
           trace |-> Append(tr, [kind |-> "delay", index |-> s.idx]),
           insertReqs |-> reqs, sent |-> 0 ]
    ELSE [ pc |-> "uploadWait", idx |-> s.idx, uploadResults |-> s.results,
           masterData |-> md,
           trace |-> Append(tr, [kind |-> "upload", index |-> s.idx]),
           insertReqs |-> reqs, sent |-> 1 ]

\* The flow's locals and effects after a run r to the next await; `answered`
\* is 1 when the run began with the answer of a remote call.
Resume(r, answered) ==
  /\ pc' = r.pc
  /\ idx' = r.idx
  /\ uploadResults' = r.uploadResults
  /\ masterData' = r.masterData
  /\ trace' = r.trace
  /\ insertReqs' = r.insertReqs
  /\ outstanding' = outstanding - answered + r.sent

\* handleSubmit, from the submit event to its first await (or its return when
\* the validation fails).
handleSubmit ==
  /\ isOpen /\ ~isSubmitting
  /\ IF ValidationError(entries, 1) # ""
       THEN /\ toast' = ValidationError(entries, 1)
            /\ UNCHANGED <<entries, isSubmitting, isOpen, folderId, pc, idx,
                           fEntries, fMaster, uploadResults, newDocuments,
                           documents, masterData, sheet, trace, insertReqs,
                           docsAtSubmit, insertFailedAt,
                           insertResps, closedAt, uiOps, faults, flows,
                           outstanding>>
       ELSE /\ flows < MaxFlows
            /\ flows' = flows + 1
            /\ isSubmitting' = TRUE
            /\ fEntries' = entries
            /\ fMaster' = masterData
            /\ newDocuments' = <<>>
            /\ docsAtSubmit' = documents
            /\ insertFailedAt' = 0
            /\ insertResps' = <<>>
            /\ closedAt' = -1
            /\ Resume(BeginUpload(entries, 1, <<>>, masterData, masterData,
                                  <<>>, <<>>, folderId), 0)
            /\ UNCHANGED <<entries, isOpen, folderId, documents, sheet, toast,
                           uiOps, faults>>
  /\ UNCHANGED <<loginVars, shareVars>>

\* The inter-upload delay has elapsed: the upload request is issued.
DelayElapsed ==
  /\ pc = "delay"
  /\ pc' = "uploadWait"
  /\ trace' = Append(trace, [kind |-> "upload", index |-> idx])
  /\ outstanding' = outstanding + 1
  /\ UNCHANGED <<entries, isSubmitting, isOpen, folderId, idx, fEntries, fMaster,
                 uploadResults, newDocuments, documents, masterData, sheet,
                 insertReqs, toast, docsAtSubmit, insertFailedAt,
                 insertResps, closedAt, uiOps, faults,
                 flows>>
  /\ UNCHANGED <<loginVars, shareVars>>

\* Mutant of UploadOk: the entry's row is inserted right after its upload (one
\* loop instead of two phases).
UploadOkThenInsert ==
  /\ pc = "uploadWait"
  /\ Resume(BeginInsert(fEntries, idx,
                        Append(uploadResults,
                               [index |-> idx, fileUrl |-> FileUrl(idx)]),
                        masterData, fMaster, trace, insertReqs), 1)
  /\ UNCHANGED <<entries, isSubmitting, isOpen, folderId, fEntries, fMaster,
                 newDocuments, documents, sheet, toast, docsAtSubmit,
                 insertFailedAt, insertResps, closedAt, uiOps, faults, flows>>
  /\ UNCHANGED <<loginVars, shareVars>>

\* The upload request of entry idx is answered with a file URL.
UploadOk ==
  /\ pc = "uploadWait"
  /\ Resume(BeginUpload(fEntries, idx + 1,
                        Append(uploadResults,
                               [index |-> idx, fileUrl |-> FileUrl(idx)]),
                        masterData, fMaster, trace, insertReqs, folderId), 1)
  /\ UNCHANGED <<entries, isSubmitting, isOpen, folderId, fEntries, fMaster,
                 newDocuments, documents, sheet, toast, docsAtSubmit,
                 insertFailedAt, insertResps, closedAt, uiOps, faults, flows>>
  /\ UNCHANGED <<loginVars, shareVars>>

\* Mutant of UploadFailed: the failed upload request is issued once more.
UploadFailedRetries ==
  /\ pc = "uploadWait"
  /\ uiOps + faults < MaxEvents
  /\ faults' = faults + 1
  /\ toast' = "Failed to upload, saving without file."
  /\ trace' = Append(trace, [kind |-> "upload", index |-> idx])
  /\ UNCHANGED <<entries, isSubmitting, isOpen, folderId, pc, idx, fEntries,
                 fMaster, uploadResults, newDocuments, documents, masterData,
                 sheet, insertReqs, docsAtSubmit, insertFailedAt, insertResps,
                 closedAt, uiOps, flows, outstanding>>
  /\ UNCHANGED <<loginVars, shareVars>>

\* Mutant of UploadFailed: the failure is recorded, then the error reaches the
\* outer catch and ends the flow.
UploadFailedAborts ==
  /\ pc = "uploadWait"
  /\ uiOps + faults < MaxEvents
  /\ faults' = faults + 1
  /\ pc' = "idle"
  /\ isSubmitting' = FALSE
  /\ uploadResults' = Append(uploadResults, [index |-> idx, fileUrl |-> Null])
  /\ toast' = "Failed to save to Google Sheets."
  /\ outstanding' = outstanding - 1
  /\ UNCHANGED <<entries, isOpen, folderId, idx, fEntries, fMaster,
                 newDocuments, documents, masterData, sheet,
                 trace, insertReqs, docsAtSubmit, insertFailedAt,
                 insertResps, closedAt, uiOps, flows>>
  /\ UNCHANGED <<loginVars, shareVars>>

\* The upload request of entry idx fails: it throws, or its answer carries no
\* file URL. Either way a null result is pushed and the loop goes on.
UploadFailed ==
  /\ pc = "uploadWait"
  /\ uiOps + faults < MaxEvents
  /\ faults' = faults + 1
  /\ \E how \in {"throws", "no fileUrl"} :
       toast' = IF how = "throws"
                  THEN "Failed to upload, saving without file."
                  ELSE "File upload failed. Saving without file."
  /\ Resume(BeginUpload(fEntries, idx + 1,
                        Append(uploadResults, [index |-> idx, fileUrl |-> Null]),
                        masterData, fMaster, trace, insertReqs, folderId), 1)
  /\ UNCHANGED <<entries, isSubmitting, isOpen, folderId, fEntries, fMaster,
                 newDocuments, documents, sheet, docsAtSubmit, insertFailedAt,
                 insertResps, closedAt,
                 uiOps, flows>>
  /\ UNCHANGED <<loginVars, shareVars>>

\* Mutant of InsertFailed: the documents built so far are put in the store
\* before the flow ends.
InsertFailedCommitsPartial ==
  /\ pc = "insertWait"
  /\ uiOps + faults < MaxEvents
  /\ faults' = faults + 1
  /\ pc' = "idle"
  /\ isSubmitting' = FALSE
  /\ insertFailedAt' = idx
  /\ UNCHANGED <<insertResps, closedAt>>
  /\ documents' = addDocuments(documents, newDocuments)
  /\ toast' = "Failed to save to Google Sheets."
  /\ outstanding' = outstanding - 1
  /\ UNCHANGED <<entries, isOpen, folderId, idx, fEntries, fMaster,
                 uploadResults, newDocuments, masterData, sheet,
                 trace, insertReqs, docsAtSubmit, uiOps, flows>>
  /\ UNCHANGED <<loginVars, shareVars>>

\* Mutant of InsertFailed: the error is swallowed and the loop goes on with the
\* next entry.
InsertFailedSkipsEntry ==
  /\ pc = "insertWait"
  /\ uiOps + faults < MaxEvents
  /\ faults' = faults + 1
  /\ insertFailedAt' = idx
  /\ UNCHANGED <<insertResps, closedAt>>
  /\ toast' = "Failed to save to Google Sheets."
  /\ IF idx < Len(fEntries)
       THEN /\ Resume(BeginInsert(fEntries, idx + 1, uploadResults, masterData,
                                  fMaster, trace, insertReqs), 1)
            /\ UNCHANGED isSubmitting
       ELSE /\ pc' = "idle"
            /\ isSubmitting' = FALSE
            /\ outstanding' = outstanding - 1
            /\ UNCHANGED <<idx, uploadResults, masterData, trace, insertReqs>>
  /\ UNCHANGED <<entries, isOpen, folderId, fEntries, fMaster, newDocuments,
                 documents, sheet, docsAtSubmit, uiOps, flows>>
  /\ UNCHANGED <<loginVars, shareVars>>

\* The insert request of entry idx throws: the error propagates to the outer
\* catch, and finally clears the busy flag.
InsertFailed ==
  /\ pc = "insertWait"
  /\ uiOps + faults < MaxEvents
  /\ faults' = faults + 1
  /\ pc' = "idle"
  /\ isSubmitting' = FALSE
  /\ insertFailedAt' = idx
  /\ UNCHANGED <<insertResps, closedAt>>
  /\ toast' = "Failed to save to Google Sheets."
  /\ outstanding' = outstanding - 1
  /\ UNCHANGED <<entries, isOpen, folderId, idx, fEntries, fMaster,
                 uploadResults, newDocuments, documents, masterData, sheet,
                 trace, insertReqs, docsAtSubmit, uiOps, flows>>
  /\ UNCHANGED <<loginVars, shareVars>>

\* Mutant of Pushed: the new DocumentItem is put in front.
PushedInFront(sn) ==
  << DocumentItem(fEntries[idx], FileUrlOf(uploadResults, idx), sn) >>
    \o newDocuments

\* The DocumentItems after the insert of entry idx was answered with serial sn.
Pushed(sn) ==
  Append(newDocuments,
         DocumentItem(fEntries[idx], FileUrlOf(uploadResults, idx), sn))

\* The form after a successful submit.
ResetForm == << BlankEntry(1) >>

\* Mutant of InsertOk: each document goes to the store as soon as its insert
\* request is answered.
InsertOkStoresEach ==
  /\ pc = "insertWait"
  /\ \E withSn \in BOOLEAN :
       LET serial == SerialNo(Len(sheet) + 1)
           docs == Pushed(IF withSn THEN serial ELSE "")
       IN
       /\ withSn \/ uiOps + faults < MaxEvents
       /\ faults' = IF withSn THEN faults ELSE faults + 1
       /\ sheet' = Append(sheet,
                          [insertReqs[Len(insertReqs)] EXCEPT !.SerialNo = serial])
       /\ newDocuments' = docs
       /\ insertResps' = Append(insertResps, IF withSn THEN serial ELSE "")
       /\ documents' = addDocuments(documents, << docs[Len(docs)] >>)
       /\ IF idx < Len(fEntries)
            THEN /\ Resume(BeginInsert(fEntries, idx + 1, uploadResults,
                                       masterData, fMaster, trace, insertReqs), 1)
                 /\ UNCHANGED <<entries, isSubmitting, isOpen, toast>>
            ELSE /\ toast' = "Document(s) added successfully"
                 /\ isOpen' = FALSE
                 /\ entries' = ResetForm
                 /\ isSubmitting' = FALSE
                 /\ pc' = "idle"
                 /\ outstanding' = outstanding - 1
                 /\ UNCHANGED <<idx, uploadResults, masterData, trace, insertReqs>>
  /\ UNCHANGED <<folderId, fEntries, fMaster, docsAtSubmit, insertFailedAt,
                 closedAt, uiOps, flows>>
  /\ UNCHANGED <<loginVars, shareVars>>

\* The insert request of entry idx is answered: the remote sheet holds the row
\* under a new serial number, which the answer carries (withSn) or not. The
\* DocumentItem is pushed; then the next entry's insert is issued or, after the
\* last entry, the documents go to the store and the form is reset.
InsertOk ==
  /\ pc = "insertWait"
  /\ \E withSn \in BOOLEAN :
       LET serial == SerialNo(Len(sheet) + 1)
           docs == Pushed(IF withSn THEN serial ELSE "")
       IN
       /\ withSn \/ uiOps + faults < MaxEvents
       /\ faults' = IF withSn THEN faults ELSE faults + 1
       /\ sheet' = Append(sheet,
                          [insertReqs[Len(insertReqs)] EXCEPT !.SerialNo = serial])
       /\ newDocuments' = docs
       /\ insertResps' = Append(insertResps, IF withSn THEN serial ELSE "")
       /\ IF idx < Len(fEntries)
            THEN /\ Resume(BeginInsert(fEntries, idx + 1, uploadResults,
                                       masterData, fMaster, trace, insertReqs), 1)
                 /\ UNCHANGED <<entries, isSubmitting, isOpen, documents, toast>>
            ELSE /\ documents' = addDocuments(documents, docs)
                 /\ toast' = "Document(s) added successfully"
                 /\ isOpen' = FALSE
                 /\ entries' = ResetForm
                 /\ isSubmitting' = FALSE
                 /\ pc' = "idle"
                 /\ outstanding' = outstanding - 1
                 /\ UNCHANGED <<idx, uploadResults, masterData, trace, insertReqs>>
  /\ UNCHANGED <<folderId, fEntries, fMaster, docsAtSubmit, insertFailedAt,
                 closedAt, uiOps, flows>>
  /\ UNCHANGED <<loginVars, shareVars>>

\* ------------------------------------------------------------------------
\* AddDocument: user events
\* ------------------------------------------------------------------------

flowVars == <<isSubmitting, folderId, pc, idx, fEntries, fMaster, uploadResults,
              newDocuments, documents, masterData, sheet, trace, insertReqs,
              docsAtSubmit, insertFailedAt, insertResps, faults, flows,
              outstanding>>

\* The values the user gives to the fields of an entry.
FieldEdits ==
  { <<"documentName", " ">>, <<"name", "ACME">>,
    <<"needsRenewal", TRUE>>, <<"needsRenewal", FALSE>> }

\* The entries the user's edits, removals and file attachments target.
Ids(es) == { es[k].id : k \in { j \in DOMAIN es : j <= EditSpan } }

\* Mutant of addEntry: the flow in progress reads the live form, so the added
\* entry joins the entries it works on.
addEntryLive ==
  /\ isOpen /\ uiOps + faults < MaxEvents
  /\ uiOps' = uiOps + 1
  /\ IF FormFull(entries)
       THEN /\ toast' = "You can add maximum 10 documents at a time."
            /\ UNCHANGED <<entries, fEntries>>
       ELSE /\ entries' = Append(entries, CopiedEntry(entries))
            /\ fEntries' = IF pc # "idle" THEN entries' ELSE fEntries
            /\ toast' = "Previous entry data copied to new form."
  /\ UNCHANGED <<isOpen, closedAt, isSubmitting, folderId, pc, idx, fMaster,
                 uploadResults, newDocuments, documents, masterData, sheet,
                 trace, insertReqs, docsAtSubmit, insertFailedAt, insertResps,
                 faults, flows, outstanding, loginVars, shareVars>>

addEntry ==
  /\ isOpen /\ uiOps + faults < MaxEvents
  /\ uiOps' = uiOps + 1
  /\ IF FormFull(entries)
       THEN /\ toast' = "You can add maximum 10 documents at a time."
            /\ UNCHANGED entries
       ELSE /\ entries' = Append(entries, CopiedEntry(entries))
            /\ toast' = "Previous entry data copied to new form."
  /\ UNCHANGED <<isOpen, closedAt, flowVars, loginVars, shareVars>>

removeEntry ==
  /\ isOpen /\ uiOps + faults < MaxEvents
  /\ uiOps' = uiOps + 1
  /\ \E id \in Ids(entries) :
       IF OnlyEntry(entries)
         THEN /\ toast' = "At least one document is required."
              /\ UNCHANGED entries
         ELSE /\ entries' = WithoutEntry(entries, id)
              /\ UNCHANGED toast
  /\ UNCHANGED <<isOpen, closedAt, flowVars, loginVars, shareVars>>

handleChange ==
  /\ isOpen /\ uiOps + faults < MaxEvents
  /\ uiOps' = uiOps + 1
  /\ \E id \in Ids(entries), e \in FieldEdits :
       entries' = ChangeField(entries, id, e[1], e[2])
  /\ UNCHANGED <<isOpen, toast, closedAt, flowVars, loginVars, shareVars>>

handleFileChange ==
  /\ isOpen /\ uiOps + faults < MaxEvents
  /\ uiOps' = uiOps + 1
  /\ \E id \in Ids(entries) : entries' = AttachFile(entries, id)
  /\ UNCHANGED <<isOpen, toast, closedAt, flowVars, loginVars, shareVars>>

\* Mutant of CloseDialog: closing the dialog abandons the flow in progress.
CloseDialogCancels ==
  /\ isOpen /\ uiOps + faults < MaxEvents
  /\ uiOps' = uiOps + 1
  /\ isOpen' = FALSE
  /\ closedAt' = IF pc # "idle" THEN Len(trace) ELSE closedAt
  /\ pc' = "idle"
  /\ isSubmitting' = FALSE
  /\ outstanding' = 0
  /\ UNCHANGED <<entries, toast, folderId, idx, fEntries, fMaster,
                 uploadResults, newDocuments, documents, masterData, sheet,
                 trace, insertReqs, docsAtSubmit, insertFailedAt, insertResps,
                 faults, flows>>
  /\ UNCHANGED <<loginVars, shareVars>>

\* The close button and Cancel call onClose: the parent hides the dialog.
CloseDialog ==
  /\ isOpen /\ uiOps + faults < MaxEvents
  /\ uiOps' = uiOps + 1
  /\ isOpen' = FALSE
  /\ closedAt' = IF pc # "idle" THEN Len(trace) ELSE closedAt
  /\ UNCHANGED <<entries, toast, flowVars, loginVars, shareVars>>

\* The parent shows the dialog again; the component's state is kept.
OpenDialog ==
  /\ ~isOpen
  /\ isOpen' = TRUE
  /\ UNCHANGED <<entries, toast, uiOps, closedAt, flowVars, loginVars, shareVars>>

\* ------------------------------------------------------------------------
\* AddDocument: initial states and specification
\* ------------------------------------------------------------------------

\* What the user has typed into the optional fields of the first entry.
BlankProfile ==
  [name |-> "", documentType |-> "", category |-> "",
   needsRenewal |-> FALSE, renewalDate |-> ""]

Profiles ==
  { BlankProfile,
    [name |-> "acme", documentType |-> "License", category |-> "Company",
     needsRenewal |-> FALSE, renewalDate |-> ""],
    [name |-> "", documentType |-> "", category |-> "",
     needsRenewal |-> TRUE, renewalDate |-> "2030-01-01"] }

DocName(n) == "doc-" \o ToString(n)

\* A form of n entries as the handlers build it from useState's blank entry:
\* handleChange fills the first entry, then addEntry and handleChange of the
\* document name (and handleFileChange for the entries fileFirst..RichLen,
\* when fileFirst > 0) are repeated.
RECURSIVE PreparedForm(_, _, _)
PreparedForm(n, prof, fileFirst) ==
  LET withFile(es, k) ==
        IF fileFirst > 0 /\ k >= fileFirst /\ k <= RichLen
          THEN AttachFile(es, es[k].id) ELSE es
  IN
  IF n = 1
    THEN withFile(
           << [BlankEntry(1) EXCEPT !.documentName = DocName(1),
                                    !.name = prof.name,
                                    !.documentType = prof.documentType,
                                    !.category = prof.category,
                                    !.needsRenewal = prof.needsRenewal,
                                    !.renewalDate = prof.renewalDate] >>, 1)
    ELSE LET prev == PreparedForm(n - 1, prof, fileFirst)
             added == Append(prev, CopiedEntry(prev))
         IN withFile(ChangeField(added, added[n].id, "documentName", DocName(n)), n)

\* The document details of a share whose document is not known to the page
\* (documentDetails undefined: every field read through ?. is undefined).
NoDoc == [sn |-> Undefined, documentName |-> Undefined, fileContent |-> Undefined]

\* The session state before any login: no authenticated user (the fields of
\* the user object all null).
NoUser == [id |-> Null, name |-> Null, role |-> Null, permissions |-> <<>>]

\* The Login and ShareModal components at rest.
LoginIdle ==
  /\ username = "" /\ password = "" /\ isLoading = FALSE
  /\ lgPc = "idle" /\ lgCreds = <<"", "">> /\ authUser = NoUser
  /\ navigated = FALSE /\ lgFetches = 0 /\ lgToast = "" /\ lgOps = 0

ShareIdle ==
  /\ recipientName = "" /\ shEmail = "" /\ shWhatsapp = ""
  /\ isSending = FALSE /\ emailSent = FALSE /\ shPc = "idle" /\ fShareLen = 0
  /\ shLogs = 0 /\ shLogReqs = <<>> /\ shEmailReqs = <<>> /\ shCloseTimers = 0
  /\ shToast = "" /\ now = 0 /\ shShares = 0 /\ shOps = 0
  /\ shareHistory = <<>>

\* The other components while one is explored: the login page not in use, no
\* share dialog shown.
LoginUnused ==
  /\ build = "HEAD" /\ scriptUrl = "https://script" /\ lgTable = <<>>
  /\ LoginIdle

ShareUnused ==
  /\ shOpen = FALSE /\ shType = Null /\ shIsBatch = FALSE /\ shBatch = <<>>
  /\ shDoc = NoDoc
  /\ ShareIdle

DocIdle ==
  /\ isSubmitting = FALSE /\ isOpen = TRUE /\ pc = "idle" /\ idx = 0
  /\ fEntries = <<>> /\ fMaster = <<>> /\ uploadResults = <<>>
  /\ newDocuments = <<>> /\ documents = <<>> /\ masterData = <<>>
  /\ sheet = <<>> /\ trace = <<>> /\ insertReqs = <<>> /\ toast = ""
  /\ docsAtSubmit = <<>> /\ insertFailedAt = 0 /\ insertResps = <<>>
  /\ closedAt = -1
  /\ uiOps = 0 /\ faults = 0 /\ flows = 0

\* The dialog is open on a form the user has prepared; nothing is in flight.
Init ==
  /\ \/ \E n \in 1..MAX_ENTRIES :
          /\ entries = PreparedForm(n, BlankProfile, 0)
          /\ folderId = "folder-id"
     \/ \E n \in 1..RichLen, prof \in Profiles, fileFirst \in 0..2 :
          /\ entries = PreparedForm(n, prof, fileFirst)
          /\ folderId = "folder-id"
     \/ \E n \in 1..RichLen :
          /\ entries = PreparedForm(n, BlankProfile, 1)
          /\ folderId = ""
  /\ DocIdle
  /\ outstanding = 0
  /\ LoginUnused /\ ShareUnused

Next ==
  \/ handleSubmit
  \/ DelayElapsed
  \/ UploadOk
  \/ UploadFailed
  \/ InsertOk
  \/ InsertFailed
  \/ addEntry
  \/ removeEntry
  \/ handleChange
  \/ handleFileChange
  \/ CloseDialog
  \/ OpenDialog

Spec == Init /\ [][Next]_vars

\* ------------------------------------------------------------------------
\* Login: the credential check
\* ------------------------------------------------------------------------

\* Rows of the credentials table beyond the header.
MaxRows == 2

\* Events of the login page explored: inputs typed and submits.
MaxLoginOps == 4

\* row[i] of a JavaScript array (0-based i): undefined past its end.
Cell(row, i) == IF i + 1 <= Len(row) THEN row[i + 1] ELSE Undefined

\* String.prototype.split(',') on the permission strings of the model.
SplitCommas(s) ==
  CASE s = "Dashboard,Loan"     -> << "Dashboard", "Loan" >>
    [] s = " Dashboard,, Loan " -> << " Dashboard", "", " Loan " >>
    [] s = ","                  -> << "", "" >>
    [] OTHER                    -> << s >>

\* Mutant of ParsePermissions: the items are filtered but not trimmed.
ParsePermissionsNoTrim(raw) ==
  SelectSeq(SplitCommas(raw), LAMBDA q : q # "")

\* The permission list of a non-admin user: split, trim each, drop the empty.
ParsePermissions(raw) ==
  LET parts   == SplitCommas(raw)
      trimmed == [k \in DOMAIN parts |-> Trim(parts[k])]
  IN SelectSeq(trimmed, LAMBDA q : q # "")

\* The permission list of an admin.
AdminPermissions ==
  << "Dashboard", "Document", "Subscription", "Loan", "Calendar", "Master",
     "Settings" >>

\* Mutant of CredentialsMatch: one matching column is enough.
CredentialsMatchEither(row, u, pw) ==
  \/ Trim(OrElse(Cell(row, 1), "")) = Trim(u)
  \/ Trim(OrElse(Cell(row, 2), "")) = Trim(pw)

\* The predicate of rows.find: both columns equal the inputs, all trimmed.
CredentialsMatch(row, u, pw) ==
  /\ Trim(OrElse(Cell(row, 1), "")) = Trim(u)
  /\ Trim(OrElse(Cell(row, 2), "")) = Trim(pw)

\* json.data.slice(1)
SkipHeader(table) == IF table = <<>> THEN <<>> ELSE Tail(table)

\* Mutant of FindRow: the last matching row is taken.
FindRowLast(rows, u, pw) ==
  LET hits == { k \in DOMAIN rows : CredentialsMatch(rows[k], u, pw) } IN
  IF hits = {} THEN Undefined
  ELSE rows[CHOOSE k \in hits : \A j \in hits : j <= k]

\* rows.find(...): the first matching row, or undefined.
RECURSIVE FindRow(_, _, _)
FindRow(rows, u, pw) ==
  IF rows = <<>> THEN Undefined
  ELSE IF CredentialsMatch(Head(rows), u, pw) THEN Head(rows)
  ELSE FindRow(Tail(rows), u, pw)

\* The role derived from the found row.
RoleOf(row) == ToLowerCase(OrElse(Cell(row, 3), "user"))

\* Mutant of IsDeleted: the sentinel is compared in the wrong letter case.
IsDeletedWrongCase(row) == Trim(OrElse(Cell(row, 5), "")) = "deleted"

\* The found row carries the deletion sentinel.
IsDeleted(row) == Trim(OrElse(Cell(row, 5), "")) = "Deleted"

\* Mutant of AuthenticatedUser: the admin test reads the role column as stored,
\* before it is lowercased.
AuthenticatedUserRawRole(row) ==
  [ id          |-> Cell(row, 1),
    name        |-> Trim(OrElse(Cell(row, 0), "")),
    role        |-> RoleOf(row),
    permissions |-> IF OrElse(Cell(row, 3), "user") = "admin"
                      THEN AdminPermissions
                      ELSE ParsePermissions(OrElse(Cell(row, 4), "")) ]

\* The object handed to setAuthenticatedUser for the found row.
AuthenticatedUser(row) ==
  [ id          |-> Cell(row, 1),
    name        |-> Trim(OrElse(Cell(row, 0), "")),
    role        |-> RoleOf(row),
    permissions |-> IF RoleOf(row) = "admin"
                      THEN AdminPermissions
                      ELSE ParsePermissions(OrElse(Cell(row, 4), "")) ]

Usernames == { "alice", " alice ", "Alice", "bob" }
Passwords == { "pw1", " pw1 ", "pw2" }

\* The user types in the username field.
setUsername ==
  /\ ~navigated /\ lgOps < MaxLoginOps
  /\ \E v \in Usernames : username' = v
  /\ username' # username
  /\ lgOps' = lgOps + 1
  /\ UNCHANGED <<build, scriptUrl, lgTable, password, isLoading, lgPc, lgCreds,
                 authUser, navigated, lgFetches, lgToast>>
  /\ UNCHANGED <<docVars, shareVars, outstanding>>

\* The user types in the password field.
setPassword ==
  /\ ~navigated /\ lgOps < MaxLoginOps
  /\ \E v \in Passwords : password' = v
  /\ password' # password
  /\ lgOps' = lgOps + 1
  /\ UNCHANGED <<build, scriptUrl, lgTable, username, isLoading, lgPc, lgCreds,
                 authUser, navigated, lgFetches, lgToast>>
  /\ UNCHANGED <<docVars, shareVars, outstanding>>

\* Mutant of MissingInput: the submit is refused only when both are empty.
MissingInputBoth(u, pw) == ~Truthy(u) /\ ~Truthy(pw)

\* !username || !password
MissingInput(u, pw) == ~Truthy(u) \/ ~Truthy(pw)

\* Login's handleSubmit up to its await of fetch. The submit button is
\* disabled while isLoading.
loginSubmit ==
  /\ ~navigated /\ ~isLoading /\ lgPc = "idle"
  /\ lgOps < MaxLoginOps
  /\ lgOps' = lgOps + 1
  /\ IF MissingInput(username, password)
       THEN /\ lgToast' = "Please enter both username and password"
            /\ UNCHANGED <<isLoading, lgPc, lgCreds, lgFetches, outstanding>>
       ELSE IF ~Truthy(scriptUrl)
         THEN \* HEAD returns through finally; incoming: new URL(undefined) throws
              /\ lgToast' = IF build = "HEAD"
                              THEN "Google Script URL is missing"
                              ELSE "Login failed"
              /\ UNCHANGED <<isLoading, lgPc, lgCreds, lgFetches, outstanding>>
         ELSE /\ isLoading' = TRUE
              /\ lgPc' = "fetch"
              /\ lgCreds' = <<username, password>>
              /\ lgFetches' = lgFetches + 1
              /\ outstanding' = outstanding + 1
              /\ UNCHANGED lgToast
  /\ UNCHANGED <<build, scriptUrl, lgTable, username, password, authUser,
                 navigated>>
  /\ UNCHANGED <<docVars, shareVars>>

\* Mutant of loginFetchFailed: the handler has no finally block, a failed fetch
\* leaves the busy flag set.
loginFetchFailedKeepsBusy ==
  /\ lgPc = "fetch"
  /\ lgPc' = "idle"
  /\ isLoading' = isLoading
  /\ outstanding' = outstanding - 1
  /\ lgToast' = IF build = "HEAD"
                  THEN "An error occurred during login. Please try again."
                  ELSE "Login failed"
  /\ UNCHANGED <<build, scriptUrl, lgTable, username, password, lgCreds,
                 authUser, navigated, lgFetches, lgOps>>
  /\ UNCHANGED <<docVars, shareVars>>

\* The fetch fails, or its answer is not { success: true, data: [...] }: the
\* catch block shows a toast, finally clears the busy flag.
loginFetchFailed ==
  /\ lgPc = "fetch"
  /\ lgPc' = "idle"
  /\ isLoading' = FALSE
  /\ outstanding' = outstanding - 1
  /\ lgToast' = IF build = "HEAD"
                  THEN "An error occurred during login. Please try again."
                  ELSE "Login failed"
  /\ UNCHANGED <<build, scriptUrl, lgTable, username, password, lgCreds,
                 authUser, navigated, lgFetches, lgOps>>
  /\ UNCHANGED <<docVars, shareVars>>

\* The fetch is answered with the credentials table: the rest of handleSubmit.
loginFetched ==
  /\ lgPc = "fetch"
  /\ lgPc' = "idle"
  /\ isLoading' = FALSE
  /\ outstanding' = outstanding - 1
  /\ LET foundRow == FindRow(SkipHeader(lgTable), lgCreds[1], lgCreds[2]) IN
     IF foundRow = Undefined
       THEN /\ lgToast' = "Invalid username or password"
            /\ UNCHANGED <<authUser, navigated>>
       ELSE IF IsDeleted(foundRow)
         THEN /\ lgToast' = IF build = "HEAD" THEN "User Does not exist"
                                                ELSE "User does not exist"
              /\ UNCHANGED <<authUser, navigated>>
         ELSE /\ authUser' = AuthenticatedUser(foundRow)
              /\ lgToast' = "Welcome back"
              /\ navigated' = TRUE
  /\ UNCHANGED <<build, scriptUrl, lgTable, username, password, lgCreds,
                 lgFetches, lgOps>>
  /\ UNCHANGED <<docVars, shareVars>>

\* The header row and the rows a credentials table of the model is made of:
\* [Name, username, Password, Role, Permissions, Deleted].
HeaderRow == << "Name", "username", "Password", "Role", "Permissions", "Status" >>

CredentialRows ==
  { << "Alice A", "alice", "pw1", "Admin", " Dashboard,, Loan ", "" >>,
    << " Alice ", " alice ", " pw1 ", "", " Dashboard,, Loan ", "" >>,
    << "Al", "alice", "pw1", "Manager", "Dashboard,Loan", " Deleted " >>,
    << "", "Alice", "pw1", "User", ",", "deleted" >>,
    << "Bob", "bob", "pw2" >>,
    << "Carol", "bob", "pw2", "user", "Loan", "Deleted" >>,
    << "Max", "bob", "pw2", "Manager", "Dashboard,Loan", "" >> }

RECURSIVE TablesOf(_)
TablesOf(n) ==
  IF n = 0 THEN { << HeaderRow >> }
  ELSE TablesOf(n - 1)
         \cup { Append(t, r) : t \in TablesOf(n - 1), r \in CredentialRows }

InitLogin ==
  /\ build \in { "HEAD", "incoming" }
  /\ scriptUrl \in { "", "https://script" }
  /\ lgTable \in TablesOf(MaxRows) \cup { <<>> }
  /\ LoginIdle
  /\ entries = << BlankEntry(1) >> /\ folderId = "folder-id"
  /\ DocIdle
  /\ ShareUnused
  /\ outstanding = 0

NextLogin ==
  \/ setUsername
  \/ setPassword
  \/ loginSubmit
  \/ loginFetchFailed
  \/ loginFetched

SpecLogin == InitLogin /\ [][NextLogin]_vars

\* ------------------------------------------------------------------------
\* ShareModal: the share flow
\* ------------------------------------------------------------------------

\* Documents of a batch share.
MaxBatch == 3

\* Share submits explored, and other events of the dialog (typing, closing).
MaxShares == 2
MaxShareOps == 4

\* String(n).padStart(3, '0')
PadStart3(n) ==
  IF n < 10 THEN "00" \o ToString(n)
  ELSE IF n < 100 THEN "0" \o ToString(n)
  ELSE ToString(n)

ShareNo(n) == "SH-" \o PadStart3(n)

isEmail == shType \in { "email", "both" }
isWhatsapp == shType \in { "whatsapp", "both" }

\* isBatch && batchDocuments.length > 0
BatchShare == shIsBatch /\ Len(shBatch) > 0

\* The argument of one logSharingActivity call.
LogRequest(docName, doc) ==
  [ recipientName |-> recipientName,
    documentName  |-> docName,
    serialNo      |-> doc.sn,
    fileContent   |-> doc.fileContent,
    shareMethod   |-> "WhatsApp",
    number        |-> shWhatsapp ]

\* handleShareWhatsApp: the log requests it issues, none of them awaited: one
\* per document of a batch, one for a single document whose details are known.
WhatsAppLogs ==
  IF BatchShare
    THEN [k \in 1..Len(shBatch) |-> LogRequest(shBatch[k].documentName, shBatch[k])]
  ELSE IF shDoc # NoDoc
    THEN << LogRequest(shDoc.documentName, shDoc) >>
  ELSE <<>>

\* One ShareHistory record (index: the 0-based position in the batch).
HistoryRecord(id, n, doc, docName, via) ==
  [ id            |-> id,
    shareNo       |-> ShareNo(n),
    docSerial     |-> OrElse(doc.sn, "N/A"),
    docName       |-> docName,
    docFile       |-> OrElse(doc.fileContent, "N/A"),
    sharedVia     |-> via,
    recipientName |-> OrElse(recipientName, "N/A"),
    contactInfo   |-> IF via = "Email" THEN shEmail ELSE shWhatsapp ]

ShareId(suffix) == "share-" \o ToString(now) \o suffix

\* The records the batch loop appends for the documents k..Len(shBatch).
RECURSIVE BatchRecords(_, _)
BatchRecords(k, nextId) ==
  IF k > Len(shBatch) THEN <<>>
  ELSE LET doc   == shBatch[k]
           index == k - 1
           em == IF isEmail
                   THEN << HistoryRecord(ShareId("-" \o ToString(index) \o "-email"),
                                         nextId + index, doc, doc.documentName,
                                         "Email") >>
                   ELSE <<>>
           wa == IF isWhatsapp
                   THEN << HistoryRecord(ShareId("-" \o ToString(index) \o "-whatsapp"),
                                         nextId + index + Len(shBatch), doc,
                                         doc.documentName, "WhatsApp") >>
                   ELSE <<>>
       IN em \o wa \o BatchRecords(k + 1, nextId)

\* The name of the single document shared (the documentName prop).
SingleName == IF shDoc = NoDoc THEN "doc-0" ELSE shDoc.documentName

\* Mutant of NewHistory: a batch shared by both channels gets one record per
\* document.
NewHistoryOnePerDocument(nextId) ==
  IF BatchShare
    THEN SelectSeq(BatchRecords(1, nextId),
                   LAMBDA r : shType = "whatsapp" \/ r.sharedVia = "Email")
  ELSE IF shType = "both"
    THEN << HistoryRecord(ShareId("-1"), nextId, shDoc, SingleName, "Email"),
            HistoryRecord(ShareId("-2"), nextId + 1, shDoc, SingleName, "WhatsApp") >>
  ELSE << HistoryRecord(ShareId(""), nextId, shDoc, SingleName,
                        IF shType = "email" THEN "Email" ELSE "WhatsApp") >>

\* The records handleSubmit appends to the share history.
NewHistory(nextId) ==
  IF BatchShare THEN BatchRecords(1, nextId)
  ELSE IF shType = "both"
    THEN << HistoryRecord(ShareId("-1"), nextId, shDoc, SingleName, "Email"),
            HistoryRecord(ShareId("-2"), nextId + 1, shDoc, SingleName, "WhatsApp") >>
  ELSE << HistoryRecord(ShareId(""), nextId, shDoc, SingleName,
                        IF shType = "email" THEN "Email" ELSE "WhatsApp") >>

\* addShareHistory of the data store, once per record.
addShareHistory(history, records) == history \o records

\* Mutant of FinishShare: the history and the close timer wait for a sent
\* email.
FinishShareNeedsEmail(emailSuccess, histLen) ==
  LET logs == IF isWhatsapp THEN WhatsAppLogs ELSE <<>>
  IN
  /\ shLogReqs' = shLogReqs \o logs
  /\ shLogs' = shLogs + Len(logs)
  /\ IF emailSuccess
       THEN /\ shareHistory' = addShareHistory(shareHistory, NewHistory(histLen + 1))
            /\ shCloseTimers' = shCloseTimers + 1
       ELSE UNCHANGED <<shareHistory, shCloseTimers>>

\* handleSubmit after the email step: the WhatsApp step, the share history and
\* the close timer. histLen is shareHistory.length of the handler's closure.
FinishShare(emailSuccess, histLen) ==
  LET logs == IF isWhatsapp THEN WhatsAppLogs ELSE <<>>
      whatsappOpened == isWhatsapp
  IN
  /\ shLogReqs' = shLogReqs \o logs
  /\ shLogs' = shLogs + Len(logs)
  /\ IF emailSuccess \/ whatsappOpened \/ shType = "whatsapp"
       THEN /\ shareHistory' = addShareHistory(shareHistory, NewHistory(histLen + 1))
            /\ shCloseTimers' =
                 IF \/ shType = "email" /\ emailSuccess
                    \/ shType = "whatsapp"
                    \/ shType = "both" /\ (emailSuccess \/ whatsappOpened)
                   THEN shCloseTimers + 1 ELSE shCloseTimers
       ELSE UNCHANGED <<shareHistory, shCloseTimers>>

shareProps == <<shType, shIsBatch, shBatch, shDoc>>

\* The fields the form requires are filled (the inputs' required attributes).
FormValid ==
  /\ isEmail => recipientName # "" /\ shEmail # ""
  /\ isWhatsapp => shWhatsapp # ""

\* ShareModal's handleSubmit up to its await of the email send (or to its end
\* when no email is sent). The submit button is disabled while isSending and,
\* for a share with email, once the email was sent.
shareSubmit ==
  /\ shOpen /\ shPc = "idle"
  /\ ~isSending /\ ~(isEmail /\ emailSent)
  /\ FormValid
  /\ shShares < MaxShares
  /\ shShares' = shShares + 1
  /\ now' = now + 1
  /\ fShareLen' = Len(shareHistory)
  /\ IF isEmail /\ Trim(shEmail) # ""
       THEN \* handleSendEmail issues the send request and awaits it
            /\ isSending' = TRUE
            /\ shEmailReqs' = Append(shEmailReqs, [to |-> shEmail])
            /\ shPc' = "emailWait"
            /\ outstanding' = outstanding + 1
            /\ UNCHANGED <<shLogs, shLogReqs, shareHistory, shCloseTimers, shToast>>
       ELSE IF isEmail /\ shType = "email"
         THEN \* handleSendEmail returned false at once
              /\ shToast' = "Please enter a valid email address"
              /\ UNCHANGED <<isSending, shEmailReqs, shPc, outstanding, shLogs,
                             shLogReqs, shareHistory, shCloseTimers>>
         ELSE /\ shToast' = IF isEmail THEN "Please enter a valid email address"
                                       ELSE shToast
              /\ FinishShare(FALSE, Len(shareHistory))
              /\ outstanding' = outstanding + Len(WhatsAppLogs)
              /\ UNCHANGED <<isSending, shEmailReqs, shPc>>
  /\ UNCHANGED <<shOpen, shareProps, recipientName, shEmail, shWhatsapp,
                 emailSent, shOps>>
  /\ UNCHANGED <<docVars, loginVars>>

\* The email send request is answered: success, a result without success, or
\* an exception; handleSubmit then runs to its end.
emailAnswered ==
  /\ shPc = "emailWait"
  /\ \E how \in { "success", "no success", "throws" } :
       LET emailSuccess == how = "success" IN
       /\ emailSent' = (emailSent \/ emailSuccess)
       /\ shToast' = IF emailSuccess THEN "Email sent successfully!"
                                     ELSE "Failed to send email"
       /\ IF ~emailSuccess /\ shType = "email"
            THEN /\ outstanding' = outstanding - 1
                 /\ UNCHANGED <<shLogs, shLogReqs, shareHistory, shCloseTimers>>
            ELSE /\ FinishShare(emailSuccess, fShareLen)
                 /\ outstanding' = outstanding - 1
                                     + (IF isWhatsapp THEN Len(WhatsAppLogs) ELSE 0)
  /\ isSending' = FALSE
  /\ shPc' = "idle"
  /\ UNCHANGED <<shOpen, shareProps, recipientName, shEmail, shWhatsapp,
                 fShareLen, shEmailReqs, now, shShares, shOps>>
  /\ UNCHANGED <<docVars, loginVars>>

\* A share-activity log request is answered; nothing waits for it.
logAnswered ==
  /\ shLogs > 0
  /\ shLogs' = shLogs - 1
  /\ outstanding' = outstanding - 1
  /\ UNCHANGED <<shOpen, shareProps, recipientName, shEmail, shWhatsapp,
                 isSending, emailSent, shPc, fShareLen, shLogReqs, shEmailReqs,
                 shCloseTimers, shToast, now, shShares, shOps, shareHistory>>
  /\ UNCHANGED <<docVars, loginVars>>

\* The user types in the recipient, email or WhatsApp field.
shareTyping ==
  /\ shOpen /\ ~isSending
  /\ shOps < MaxShareOps
  /\ shOps' = shOps + 1
  /\ \/ /\ ~emailSent
        /\ \E v \in { "", "Bob" } : recipientName' = v /\ v # recipientName
        /\ UNCHANGED <<shEmail, shWhatsapp>>
     \/ /\ ~emailSent
        /\ \E v \in { "", "a@b.c" } : shEmail' = v /\ v # shEmail
        /\ UNCHANGED <<recipientName, shWhatsapp>>
     \/ /\ \E v \in { "", "911" } : shWhatsapp' = v /\ v # shWhatsapp
        /\ UNCHANGED <<recipientName, shEmail>>
  /\ UNCHANGED <<shOpen, shareProps, isSending, emailSent, shPc, fShareLen,
                 shLogs, shLogReqs, shEmailReqs, shCloseTimers, shToast, now,
                 shShares, shareHistory>>
  /\ UNCHANGED <<docVars, loginVars, outstanding>>

\* The close timer set by handleSubmit fires: onClose and the form reset.
closeTimer ==
  /\ shCloseTimers > 0
  /\ shCloseTimers' = shCloseTimers - 1
  /\ shOpen' = FALSE
  /\ recipientName' = "" /\ shEmail' = "" /\ shWhatsapp' = ""
  /\ emailSent' = FALSE
  /\ UNCHANGED <<shareProps, isSending, shPc, fShareLen, shLogs, shLogReqs,
                 shEmailReqs, shToast, now, shShares, shOps, shareHistory>>
  /\ UNCHANGED <<docVars, loginVars, outstanding>>

\* The user closes the dialog (the buttons are disabled while isSending).
closeShare ==
  /\ shOpen /\ ~isSending
  /\ shOps < MaxShareOps
  /\ shOps' = shOps + 1
  /\ shOpen' = FALSE
  /\ UNCHANGED <<shareProps, recipientName, shEmail, shWhatsapp, isSending,
                 emailSent, shPc, fShareLen, shLogs, shLogReqs, shEmailReqs,
                 shCloseTimers, shToast, now, shShares, shareHistory>>
  /\ UNCHANGED <<docVars, loginVars, outstanding>>

\* The documents a share is about.
SharedDoc(n) ==
  [ sn           |-> IF n = 2 THEN "" ELSE SerialNo(n),
    documentName |-> DocName(n),
    fileContent  |-> IF n = 3 THEN Undefined ELSE FileUrl(n) ]

\* The page opens the dialog for a share: the effect on isOpen resets the form.
openShare ==
  /\ ~shOpen /\ shPc = "idle"
  /\ shShares < MaxShares
  /\ shOpen' = TRUE
  /\ shType' \in { "email", "whatsapp", "both" }
  /\ \/ /\ shIsBatch' = FALSE /\ shBatch' = <<>>
        /\ shDoc' \in { NoDoc, SharedDoc(1) }
     \/ /\ shIsBatch' = TRUE /\ shDoc' = NoDoc
        /\ \E m \in 0..MaxBatch : shBatch' = [k \in 1..m |-> SharedDoc(k)]
  /\ recipientName' = "" /\ shEmail' = "" /\ shWhatsapp' = ""
  /\ emailSent' = FALSE /\ isSending' = FALSE
  /\ UNCHANGED <<shPc, fShareLen, shLogs, shLogReqs, shEmailReqs, shCloseTimers,
                 shToast, now, shShares, shOps, shareHistory>>
  /\ UNCHANGED <<docVars, loginVars, outstanding>>

InitShare ==
  /\ ShareUnused
  /\ entries = << BlankEntry(1) >> /\ folderId = "folder-id"
  /\ DocIdle
  /\ LoginUnused
  /\ outstanding = 0

NextShare ==
  \/ openShare
  \/ shareTyping
  \/ shareSubmit
  \/ emailAnswered
  \/ logAnswered
  \/ closeTimer
  \/ closeShare

SpecShare == InitShare /\ [][NextShare]_vars

\* ------------------------------------------------------------------------
\* Properties of the document submit flow
\* ------------------------------------------------------------------------

\* A submit flow has run and is over.
FlowOver == pc = "idle" /\ flows > 0

\* The flow is over and every entry's insert was answered.
FlowSucceeded == FlowOver /\ insertFailedAt = 0

\* The flow is over because the insert request of entry insertFailedAt failed.
FlowFailed == FlowOver /\ insertFailedAt > 0

\* The trace events of one kind, in order.
Events(kind) == SelectSeq(trace, LAMBDA e : e.kind = kind)

\* x occurs in the sequence xs.
Occurs(x, xs) == \E k \in DOMAIN xs : xs[k] = x

\* The rows the remote sheet holds for the first m insert requests of the flow
\* whose insert has been answered: its last rows, in order, each with a serial.
CommittedRemotely(m) ==
  /\ Len(sheet) >= Len(newDocuments)
  /\ \A k \in 1..m :
       LET row == sheet[Len(sheet) - Len(newDocuments) + k] IN
       /\ [row EXCEPT !.SerialNo = ""] = insertReqs[k]
       /\ row.SerialNo # ""

\* C1 (as claimed): when the insert request of entry K has failed and the flow
\* is over, the DocumentItems of the entries before K are in the local
\* document store.
C1_EarlierDocumentsInStore ==
  FlowFailed =>
    \A k \in 1..(insertFailedAt - 1) : Occurs(newDocuments[k], documents)

\* C1 (amended): when the insert request of entry K has failed and the flow is
\* over, the rows of the entries before K are committed remotely, their
\* DocumentItems were built, and the local document store is exactly as it
\* was when the submit began: none of them has been added to it.
C1_EarlierDocumentsOnlyRemote ==
  FlowFailed =>
    /\ Len(newDocuments) = insertFailedAt - 1
    /\ CommittedRemotely(insertFailedAt - 1)
    /\ documents = docsAtSubmit

\* Witness of C1: a flow has failed at an entry that is not the first, with
\* documents built for the entries before it.
C1_Witness ==
  FlowFailed /\ insertFailedAt >= 2 /\ Len(newDocuments) = insertFailedAt - 1

\* C2: when the insert request of entry K has failed, the flow has issued the
\* insert requests of the entries up to K and of no later entry, the failed
\* request is the last thing the flow has issued, nothing is in flight, and the
\* rows of the entries before K are still in the remote sheet (the flow issues
\* uploads and inserts only: no delete).
C2_NoInsertAfterFailure ==
  FlowFailed =>
    /\ Len(insertReqs) = insertFailedAt
    /\ [k \in 1..Len(Events("insert")) |-> Events("insert")[k].index]
         = [k \in 1..insertFailedAt |-> k]
    /\ trace[Len(trace)] = [kind |-> "insert", index |-> insertFailedAt]
    /\ \A k \in DOMAIN trace : trace[k].kind \in {"delay", "upload", "insert"}
    /\ outstanding = 0
    /\ CommittedRemotely(insertFailedAt - 1)

\* Witness of C2: a flow has failed at an entry with entries before and after it.
C2_Witness ==
  FlowFailed /\ insertFailedAt >= 2 /\ insertFailedAt < Len(fEntries)

\* The upload request of entry k was issued and failed.
UploadFailedFor(k) ==
  /\ Occurs([kind |-> "upload", index |-> k], trace)
  /\ Occurs([index |-> k, fileUrl |-> Null], uploadResults)

\* C3 (as claimed): when the upload request of entry K has failed, the flow
\* issues the insert requests of all N entries: a flow that is over has issued
\* them all.
C3_AllInsertsIssuedAfterUploadFailure ==
  \A k \in DOMAIN fEntries :
    UploadFailedFor(k) /\ FlowOver =>
      [i \in 1..Len(Events("insert")) |-> Events("insert")[i].index]
        = [i \in 1..Len(fEntries) |-> i]

\* C3 (amended): when the upload request of entry K has failed, the flow goes
\* on: once the upload loop is over every later entry with a file has had its
\* upload request issued; the flow ends only after the insert requests of all N
\* entries were issued, or with an insert request that failed; and entry K's
\* inserted row, its DocumentItem and its saved record carry no file reference.
C3_UploadFailureDegrades ==
  \A k \in DOMAIN fEntries :
    UploadFailedFor(k) =>
      /\ pc \in {"insertWait", "idle"} =>
           \A j \in (k + 1)..Len(fEntries) :
             HasUpload(fEntries[j], folderId) =>
               Occurs([kind |-> "upload", index |-> j], trace)
      /\ pc = "idle" =>
           \/ insertFailedAt > 0
           \/ /\ [i \in 1..Len(Events("insert")) |-> Events("insert")[i].index]
                   = [i \in 1..Len(fEntries) |-> i]
              /\ Len(insertReqs) = Len(fEntries)
      /\ Len(insertReqs) >= k => insertReqs[k].Image = ""
      /\ Len(newDocuments) >= k => newDocuments[k].fileContent = Undefined
      /\ FlowSucceeded =>
           documents[Len(docsAtSubmit) + k].fileContent = Undefined

\* Witness of C3: the upload of an entry failed, a later entry's upload was
\* issued and answered with a URL, and the flow has saved all the documents.
C3_Witness ==
  /\ FlowSucceeded
  /\ \E k \in DOMAIN fEntries :
       /\ UploadFailedFor(k)
       /\ \E j \in (k + 1)..Len(fEntries) :
            /\ Occurs([kind |-> "upload", index |-> j], trace)
            /\ documents[Len(docsAtSubmit) + j].fileContent = FileUrl(j)
       /\ documents[Len(docsAtSubmit) + k].fileContent = Undefined

\* C4: the flow is two-phase: when an insert request has been issued, the
\* upload step of every entry is over (each entry has its upload result), and
\* no delay or upload follows an insert in the flow's trace.
C4_TwoPhase ==
  Events("insert") # <<>> =>
    /\ [k \in 1..Len(uploadResults) |-> uploadResults[k].index]
         = [k \in 1..Len(fEntries) |-> k]
    /\ \A a, b \in DOMAIN trace :
         trace[a].kind = "insert" /\ a < b => trace[b].kind = "insert"
    /\ pc \in {"insertWait", "idle"}

\* Witness of C4: a flow with two uploads has issued an insert request.
C4_Witness ==
  /\ pc = "insertWait"
  /\ Len(Events("upload")) >= 2
  /\ Len(Events("insert")) >= 2

\* C6 (as claimed): the master data never holds two entries whose
\* (companyName, documentType, category) are equal ignoring case.
C6_MasterDataDeduplicated ==
  \A a, b \in DOMAIN masterData :
    a # b =>
      ~ /\ ToLowerCase(masterData[a].companyName)
             = ToLowerCase(masterData[b].companyName)
        /\ ToLowerCase(masterData[a].documentType)
             = ToLowerCase(masterData[b].documentType)
        /\ ToLowerCase(masterData[a].category)
             = ToLowerCase(masterData[b].category)

\* Only the document name of the entry is filled.
OnlyNameFilled(e) ==
  /\ Truthy(e.documentName) /\ Trim(e.documentName) # ""
  /\ [e EXCEPT !.id = 0, !.documentName = ""] = BlankEntry(0)

AllOnlyNames(es) == \A k \in DOMAIN es : OnlyNameFilled(es[k])

\* C7: a form whose entries have only the document name filled passes the
\* validation; and when the flow of such a form of N entries is over with every
\* insert answered, the store holds exactly N more DocumentItems, one per entry
\* in entry order.
C7_NamesOnlySubmit ==
  /\ AllOnlyNames(entries) => ValidationError(entries, 1) = ""
  /\ FlowSucceeded /\ AllOnlyNames(fEntries) =>
       /\ Len(documents) = Len(docsAtSubmit) + Len(fEntries)
       /\ SubSeq(documents, 1, Len(docsAtSubmit)) = docsAtSubmit
       /\ \A k \in DOMAIN fEntries :
            LET d == documents[Len(docsAtSubmit) + k] IN
            /\ d.documentName = fEntries[k].documentName
            /\ d.sn \in {"Pending", sheet[Len(sheet) - Len(fEntries) + k].SerialNo}

\* Witness of C7: a form of MAX_ENTRIES entries with only names has been saved.
C7_Witness ==
  /\ FlowSucceeded /\ AllOnlyNames(fEntries)
  /\ Len(fEntries) = MAX_ENTRIES
  /\ Len(documents) = MAX_ENTRIES

\* C8: addEntry on a form of 10 entries leaves the entries as they were.
C8_AddEntryRejectedWhenFull ==
  [][addEntry /\ Len(entries) = 10 => entries' = entries]_vars

\* Witness of C8: addEntry was rejected on a form of 10 entries.
C8_Witness ==
  /\ Len(entries) = 10
  /\ toast = "You can add maximum 10 documents at a time."

\* C9: the form always holds 1 to 10 entries; removeEntry on the only entry
\* leaves the form as it was; a flow that ends with every insert answered
\* leaves the form with exactly one blank entry.
C9_FormSize ==
  /\ [](Len(entries) >= 1 /\ Len(entries) <= 10)
  /\ [][ /\ removeEntry /\ Len(entries) = 1 => entries' = entries
         /\ pc = "insertWait" /\ pc' = "idle" /\ insertFailedAt' = 0 =>
              Len(entries') = 1 /\ entries' = << BlankEntry(entries'[1].id) >>
       ]_vars

\* Witness of C9: a submit of a form of several entries has reset the form.
C9_Witness ==
  /\ FlowSucceeded /\ Len(fEntries) >= 2
  /\ Len(entries) = 1 /\ entries = << BlankEntry(entries[1].id) >>

\* ------------------------------------------------------------------------
\* Properties of the credential check
\* ------------------------------------------------------------------------

\* Some non-header row of the table has the trimmed username and password equal
\* to the trimmed inputs of the attempt.
SomeRowMatches ==
  \E k \in 2..Len(lgTable) :
    LET row == lgTable[k] IN
    /\ Len(row) >= 3
    /\ Trim(IF row[2] \in {"", Null, Undefined} THEN "" ELSE row[2])
         = Trim(lgCreds[1])
    /\ Trim(IF row[3] \in {"", Null, Undefined} THEN "" ELSE row[3])
         = Trim(lgCreds[2])

\* C10: a login attempt changes the session state (the authenticated user)
\* only when it is the answer to the credentials fetch and some non-header row
\* of the fetched table has its trimmed username and password columns equal,
\* case-sensitively, to the trimmed username and password the attempt was
\* submitted with; every other step leaves the session state as it was.
C10_SessionSetOnlyOnMatch ==
  [][ authUser' # authUser \/ navigated' # navigated =>
        lgPc = "fetch" /\ SomeRowMatches ]_vars

\* Witness of C10: a login has set the session state, from inputs that differ
\* from the row's columns by surrounding blanks.
C10_Witness ==
  /\ authUser # NoUser /\ navigated
  /\ lgCreds[1] = " alice "
  /\ authUser.id = "alice"

\* ------------------------------------------------------------------------
\* Properties of the remote calls
\* ------------------------------------------------------------------------

\* C5 (as claimed): the front-end never has two remote requests outstanding at
\* the same time: each remote call (upload, insert, email send, share-activity
\* log) is answered before the next one is issued.
C5_OneRequestAtATime == outstanding <= 1

\* The row the attempt in flight is decided on: the first non-header row whose
\* credentials match, or Undefined.
MatchedRow == FindRow(SkipHeader(lgTable), lgCreds[1], lgCreds[2])

\* C11: a login attempt whose matched row has the deletion-flag column equal to
\* 'Deleted' leaves the session state as it was and does not navigate.
C11_DeletedNeverLogsIn ==
  [][ /\ lgPc = "fetch"
      /\ MatchedRow # Undefined
      /\ Len(MatchedRow) >= 6
      /\ MatchedRow[6] = "Deleted"
      => authUser' = authUser /\ navigated' = navigated ]_vars

\* Witness of C11: an attempt matched a row flagged 'Deleted' and was rejected.
C11_Witness ==
  /\ lgPc = "idle" /\ lgFetches > 0
  /\ lgToast \in { "User Does not exist", "User does not exist" }
  /\ MatchedRow # Undefined /\ Len(MatchedRow) >= 6 /\ MatchedRow[6] = "Deleted"
  /\ authUser = NoUser /\ ~navigated

\* A login has succeeded: the session state holds a user.
LoggedIn == authUser # NoUser

\* C12: whenever a successful login derives the role 'admin', the stored
\* permission list is exactly the fixed 7 items, whatever the row's permission
\* column holds.
C12_AdminPermissionsFixed ==
  LoggedIn /\ authUser.role = "admin" =>
    authUser.permissions =
      << "Dashboard", "Document", "Subscription", "Loan", "Calendar", "Master",
         "Settings" >>

\* Witness of C12: an admin has logged in from a row whose role column is
\* written 'Admin' and whose permission column lists other permissions.
C12_Witness ==
  /\ LoggedIn /\ authUser.role = "admin"
  /\ MatchedRow[4] = "Admin"
  /\ MatchedRow[5] = " Dashboard,, Loan "
  /\ Len(authUser.permissions) = 7

\* C13 (as claimed): after every successful login the stored role is 'admin' or
\* 'user'.
C13_RoleIsAdminOrUser ==
  LoggedIn => authUser.role \in { "admin", "user" }

\* The permission list the column's text stands for: its comma-separated items
\* without surrounding blanks, the empty ones left out, in column order.
ExpectedPermissions(column) ==
  CASE column = " Dashboard,, Loan " -> << "Dashboard", "Loan" >>
    [] column = "Dashboard,Loan"     -> << "Dashboard", "Loan" >>
    [] column = "Loan"               -> << "Loan" >>
    [] column = ","                  -> <<>>
    [] column = ""                   -> <<>>

\* C14: after a successful login with a role other than admin, the stored
\* permission list is the permission column split on commas, each item trimmed,
\* the empty items removed, in column order; no item is empty or padded with
\* blanks.
C14_UserPermissionsParsed ==
  LoggedIn /\ authUser.role # "admin" =>
    /\ authUser.permissions =
         ExpectedPermissions(IF Len(MatchedRow) >= 5 THEN MatchedRow[5] ELSE "")
    /\ \A k \in DOMAIN authUser.permissions :
         authUser.permissions[k] \notin
           { "", " ", " Dashboard", " Loan ", " Loan", "Loan ", "Dashboard " }

\* Witness of C14: a non-admin user has logged in from a row whose permission
\* column has blanks around its items and an empty item.
C14_Witness ==
  /\ LoggedIn /\ authUser.role = "user"
  /\ Len(MatchedRow) >= 5
  /\ MatchedRow[5] = " Dashboard,, Loan "
  /\ authUser.permissions = << "Dashboard", "Loan" >>

\* C15: a login submit with an empty username or an empty password issues no
\* credentials fetch, does not set the busy flag and leaves the session state
\* as it was.
C15_EmptyInputRejectedLocally ==
  [][ loginSubmit /\ (username = "" \/ password = "") =>
        /\ lgFetches' = lgFetches /\ outstanding' = outstanding
        /\ lgPc' = "idle"
        /\ isLoading' = FALSE
        /\ authUser' = authUser /\ navigated' = navigated ]_vars

\* Witness of C15: a submit with the username filled and the password empty was
\* rejected.
C15_Witness ==
  /\ lgToast = "Please enter both username and password"
  /\ username # "" /\ password = ""
  /\ lgFetches = 0 /\ ~isLoading /\ authUser = NoUser

\* ------------------------------------------------------------------------
\* Properties of the document submit flow, continued
\* ------------------------------------------------------------------------

\* Some entry of the form has an empty or blank document name, or has the
\* renewal flag set and no renewal date.
InvalidForm(es) ==
  \E k \in DOMAIN es :
    \/ es[k].documentName \in { "", " " }
    \/ es[k].needsRenewal = TRUE /\ es[k].renewalDate = ""

\* C16: a submit of a form with an empty or blank document name, or with the
\* renewal flag set without a renewal date, issues no remote request, leaves
\* isSubmitting false and leaves entries, master data and the document store
\* as they were.
C16_InvalidSubmitBlocked ==
  [][ handleSubmit /\ InvalidForm(entries) =>
        /\ outstanding' = outstanding /\ outstanding' = 0
        /\ trace' = trace /\ insertReqs' = insertReqs /\ sheet' = sheet
        /\ pc' = "idle" /\ isSubmitting' = FALSE
        /\ entries' = entries
        /\ masterData' = masterData
        /\ documents' = documents ]_vars

\* Witness of C16: a submit was blocked on a blank document name.
C16_Witness ==
  /\ toast = "Please fill Document Name for all entries."
  /\ \E k \in DOMAIN entries : entries[k].documentName = " "
  /\ flows = 0 /\ ~isSubmitting /\ outstanding = 0

\* The trace event at position a is an upload request that the flow issued
\* right after waiting the delay.
AfterDelay(a) == a > 1 /\ trace[a - 1].kind = "delay"

\* The positions of the upload requests in the trace.
UploadPositions == { a \in DOMAIN trace : trace[a].kind = "upload" }

\* C17 (as claimed): the delay is waited before every upload request of the
\* flow except its first upload request.
C17_DelayBeforeAllButFirstUpload ==
  \A a \in UploadPositions :
    AfterDelay(a) <=> \E b \in UploadPositions : b < a

\* C18: the flow has created one DocumentItem per insert response received, in
\* entry order, and none for a request not yet answered; the serial number of
\* the item of entry k is the one its own insert response carried, or 'Pending'
\* when that response carried none; the items a successful flow adds to the
\* store are these.
C18_SerialFromOwnResponse ==
  /\ Len(newDocuments) = Len(insertResps)
  /\ pc = "insertWait" => Len(newDocuments) = Len(insertReqs) - 1
  /\ \A k \in DOMAIN newDocuments :
       /\ newDocuments[k].documentName = fEntries[k].documentName
       /\ newDocuments[k].sn = IF insertResps[k] = "" THEN "Pending"
                                                      ELSE insertResps[k]
  /\ FlowSucceeded =>
       documents = docsAtSubmit \o newDocuments

\* Witness of C18: a flow has saved a document whose insert response carried a
\* serial number and one whose response carried none.
C18_Witness ==
  /\ FlowSucceeded
  /\ \E j, k \in DOMAIN newDocuments :
       /\ insertResps[j] = "" /\ documents[Len(docsAtSubmit) + j].sn = "Pending"
       /\ insertResps[k] # "" /\ documents[Len(docsAtSubmit) + k].sn = insertResps[k]

\* The dialog was closed while the current flow was in progress.
ClosedDuringFlow == closedAt >= 0

\* C19: closing the dialog while a flow is in progress leaves the flow as it
\* is (its position, its locals, its request in flight, the busy flag); and a
\* flow that was closed on the way and ends with every insert answered has
\* issued the upload request of every entry with a file and the insert request
\* of every entry, and has added its documents to the store.
C19_CloseDoesNotCancel ==
  /\ [][ CloseDialog =>
           /\ pc' = pc /\ idx' = idx /\ outstanding' = outstanding
           /\ isSubmitting' = isSubmitting
           /\ fEntries' = fEntries /\ uploadResults' = uploadResults
           /\ newDocuments' = newDocuments /\ trace' = trace ]_vars
  /\ [](FlowSucceeded /\ ClosedDuringFlow =>
          /\ \A k \in DOMAIN fEntries :
               /\ Occurs([kind |-> "insert", index |-> k], trace)
               /\ HasUpload(fEntries[k], folderId) =>
                    Occurs([kind |-> "upload", index |-> k], trace)
          /\ Len(newDocuments) = Len(fEntries)
          /\ documents = docsAtSubmit \o newDocuments)

\* Witness of C19: the dialog was closed during a flow that went on to issue an
\* upload request and insert requests and saved its documents.
C19_Witness ==
  /\ FlowSucceeded /\ ClosedDuringFlow
  /\ \E a, b \in DOMAIN trace :
       /\ a > closedAt /\ trace[a].kind = "upload"
       /\ b > closedAt /\ trace[b].kind = "insert"
  /\ Len(documents) = Len(docsAtSubmit) + Len(fEntries)

\* ------------------------------------------------------------------------
\* Properties of the share flow
\* ------------------------------------------------------------------------

\* The step in which a share submit runs to its end.
SubmitEnds == emailAnswered \/ (shareSubmit /\ shPc' = "idle")

\* The records of the history that are about the document doc over channel via.
RecordsOf(history, from, doc, via) ==
  { j \in from..Len(history) :
      history[j].docName = doc.documentName /\ history[j].sharedVia = via }

\* C20: a share submit of a batch of M >= 1 documents by both channels appends
\* exactly 2 * M records to the share history, one Email and one WhatsApp
\* record for each document of the batch.
C20_BothBatchAppendsTwoPerDocument ==
  [][ SubmitEnds /\ shType = "both" /\ BatchShare =>
        LET old == Len(shareHistory) IN
        /\ Len(shareHistory') = old + 2 * Len(shBatch)
        /\ SubSeq(shareHistory', 1, old) = shareHistory
        /\ \A k \in DOMAIN shBatch :
             /\ Cardinality(RecordsOf(shareHistory', old + 1, shBatch[k], "Email")) = 1
             /\ Cardinality(RecordsOf(shareHistory', old + 1, shBatch[k], "WhatsApp")) = 1
    ]_vars

\* Witness of C20: one submit of a batch of several documents by both channels
\* has ended and the history holds its records.
C20_Witness ==
  /\ shShares = 1 /\ shPc = "idle"
  /\ shType = "both" /\ BatchShare /\ Len(shBatch) >= 2
  /\ Len(shEmailReqs) = 1
  /\ Len(shareHistory) = 2 * Len(shBatch)

\* C21: a share submit of type 'whatsapp' appends its WhatsApp record(s) (one
\* per document of a batch, one otherwise) and schedules the close timer in the
\* very step of the submit: it issues no email request and waits for no answer,
\* the log requests it issued being still in flight.
C21_WhatsAppAlwaysSent ==
  [][ shareSubmit /\ shType = "whatsapp" =>
        LET old == Len(shareHistory)
            n   == IF BatchShare THEN Len(shBatch) ELSE 1 IN
        /\ Len(shareHistory') = old + n
        /\ SubSeq(shareHistory', 1, old) = shareHistory
        /\ \A j \in (old + 1)..(old + n) : shareHistory'[j].sharedVia = "WhatsApp"
        /\ shCloseTimers' = shCloseTimers + 1
        /\ shPc' = "idle"
        /\ shEmailReqs' = shEmailReqs
        /\ shLogs' = shLogs + Len(WhatsAppLogs)
    ]_vars

\* Witness of C21: a batch was shared over WhatsApp, its records are in the
\* history and the close timer is set while its log requests are unanswered.
C21_Witness ==
  /\ shType = "whatsapp" /\ BatchShare /\ Len(shBatch) >= 2
  /\ shShares = 1 /\ shPc = "idle"
  /\ shLogs = Len(shBatch)
  /\ shCloseTimers = 1
  /\ Len(shareHistory) = Len(shBatch)
  /\ \A j \in DOMAIN shareHistory : shareHistory[j].sharedVia = "WhatsApp"

\* ------------------------------------------------------------------------
\* Termination of the login and submit flows
\* ------------------------------------------------------------------------

\* The page explored by a behaviour: the login page when the backend serves a
\* credentials table, the document dialog otherwise.
LoginPageShown == lgTable # <<>>

\* The document dialog on a form of up to RichLen named entries, with and
\* without files and upload folder; the login page on a table of one row at most.
InitBusy ==
  \/ /\ Init /\ Len(entries) <= RichLen
     /\ entries[1].name = "" /\ ~entries[1].needsRenewal
  \/ InitLogin /\ LoginPageShown /\ Len(lgTable) <= 2

\* The steps of the flows and the user events that decide whether a submit can
\* be triggered; edits of the form change no flow in progress.
NextBusy ==
  \/ /\ ~LoginPageShown
     /\ \/ handleSubmit
        \/ DelayElapsed
        \/ UploadOk
        \/ UploadFailed
        \/ InsertOk
        \/ InsertFailed
        \/ CloseDialog
        \/ OpenDialog
  \/ LoginPageShown /\ NextLogin

\* Every remote call eventually returns or throws, and the delay timer fires.
RemoteCallsReturn ==
  /\ WF_vars(DelayElapsed)
  /\ WF_vars(UploadOk \/ UploadFailed)
  /\ WF_vars(InsertOk \/ InsertFailed)
  /\ WF_vars(loginFetched \/ loginFetchFailed)

SpecBusy == InitBusy /\ [][NextBusy]_vars /\ RemoteCallsReturn

\* C22: a flow that set its busy flag (isSubmitting, isLoading) eventually
\* clears it, whatever its outcome; and once a flow is over its flag is clear,
\* so that the submit button is enabled for a new attempt.
C22_BusyFlagCleared ==
  /\ isSubmitting ~> ~isSubmitting
  /\ isLoading ~> ~isLoading
  /\ [](pc = "idle" => ~isSubmitting)
  /\ [](lgPc = "idle" => ~isLoading)

\* Witness of C22: the first submit flow failed at an insert, a second flow was
\* started and is over.
C22_Witness ==
  /\ flows = 2 /\ faults >= 1 /\ docsAtSubmit = <<>>
  /\ pc = "idle" /\ ~isSubmitting

\* The requests of one kind the current submit flow has issued for entry k.
RequestsFor(kind, k) ==
  { a \in DOMAIN trace : trace[a] = [kind |-> kind, index |-> k] }

\* C23: no request is retried. A submit flow issues at most one upload request
\* and at most one insert request per entry, whatever has failed; a credentials
\* fetch is issued by the user's submit only, one per submit, never by the
\* step that handles its answer or its failure.
C23_NoAutomaticRetry ==
  /\ [](\A k \in 1..MAX_ENTRIES :
          /\ Cardinality(RequestsFor("upload", k)) <= 1
          /\ Cardinality(RequestsFor("insert", k)) <= 1)
  /\ [](Len(insertReqs) = Len(Events("insert")))
  /\ [][ /\ lgFetches' # lgFetches => loginSubmit /\ lgFetches' = lgFetches + 1
         /\ loginFetchFailed \/ loginFetched => lgPc' = "idle" ]_vars

\* Witness of C23: a flow in which an upload request failed and then an insert
\* request failed is over, with one upload request for the failed entry.
C23_Witness ==
  /\ FlowFailed
  /\ \E k \in DOMAIN fEntries :
       UploadFailedFor(k) /\ Cardinality(RequestsFor("upload", k)) = 1
  /\ Cardinality(RequestsFor("insert", insertFailedAt)) = 1

\* C24: the document store changes in one step only, the step that ends a flow
\* whose insert requests were all answered, and then by all the documents of
\* the flow at once; until then, and after a flow that failed, the store is
\* as it was at the submit, and the step in which a flow fails leaves the
\* store and the form entries as they are.
C24_StoreChangedOnceAtTheEnd ==
  /\ [](pc # "idle" \/ FlowFailed => documents = docsAtSubmit)
  /\ [][ documents' # documents =>
           /\ InsertOk /\ pc' = "idle"
           /\ Len(insertResps') = Len(fEntries)
           /\ Len(newDocuments') = Len(fEntries)
           /\ documents' = documents \o newDocuments' ]_vars
  /\ [][ InsertFailed => documents' = documents /\ entries' = entries ]_vars

\* Witness of C24: a flow of several entries has succeeded and its documents
\* are in the store, after an earlier flow that failed had left it empty.
C24_Witness ==
  /\ FlowSucceeded /\ flows = 2 /\ docsAtSubmit = <<>>
  /\ Len(fEntries) >= 2
  /\ documents = newDocuments /\ Len(documents) = Len(fEntries)

\* C25: no two records of the share history carry the same share number.
C25_ShareNoUnique ==
  \A i, j \in DOMAIN shareHistory :
    i # j => shareHistory[i].shareNo # shareHistory[j].shareNo

\* C26: a record with sharedVia 'Email' is appended only in the step in which
\* the email send of the submit was answered with success.
C26_EmailRecordOnlyAfterSentEmail ==
  [][ (\E j \in (Len(shareHistory) + 1)..Len(shareHistory') :
         shareHistory'[j].sharedVia = "Email")
      => emailAnswered /\ shToast' = "Email sent successfully!" ]_vars

\* C27: for every entry of a flow that succeeded, the row of its insert
\* request carries a renewal date exactly when the DocumentItem made for it
\* has one, which is exactly when the entry's renewal flag is set.
C27_RenewalDateConsistent ==
  FlowSucceeded =>
    \A k \in DOMAIN fEntries :
      /\ insertReqs[k].RenewalDate # "" <=> Truthy(newDocuments[k].renewalDate)
      /\ Truthy(newDocuments[k].renewalDate) <=> fEntries[k].needsRenewal

\* The positions of the non-header rows whose credentials match the attempt.
MatchingRows ==
  { k \in DOMAIN SkipHeader(lgTable) :
      CredentialsMatch(SkipHeader(lgTable)[k], lgCreds[1], lgCreds[2]) }

\* C28: when the table is received the login is decided on the first matching
\* non-header row alone: flagged 'Deleted', the attempt is rejected whatever
\* the later rows hold; otherwise the session is built from that row.
C28_FirstMatchingRowDecides ==
  [][ loginFetched /\ MatchingRows # {} =>
        LET first == SkipHeader(lgTable)[CHOOSE k \in MatchingRows :
                                           \A j \in MatchingRows : k <= j]
        IN IF IsDeleted(first)
             THEN authUser' = authUser /\ navigated' = navigated
             ELSE authUser' = AuthenticatedUser(first) /\ navigated' ]_vars

\* Witness of C28: the first matching row is flagged 'Deleted', a later row
\* with the same credentials is not, and the attempt was rejected.
C28_Witness ==
  /\ lgPc = "idle" /\ lgFetches > 0
  /\ lgToast \in { "User Does not exist", "User does not exist" }
  /\ authUser = NoUser /\ ~navigated
  /\ Len(lgTable) = 3
  /\ MatchingRows = { 1, 2 }
  /\ IsDeleted(lgTable[2]) /\ ~IsDeleted(lgTable[3])

\* C29: a flow that failed at the insert request of entry K has added
\* master-data entries for entries before K only: no more entries than the
\* entries before K that carry a name, a type and a category.
C29_NoMasterDataForFailedInsert ==
  FlowFailed =>
    Len(masterData) - Len(fMaster)
      <= Cardinality({ k \in 1..(insertFailedAt - 1) : MasterEligible(fEntries[k]) })

\* A step of the user on the dialog: an entry added or removed, a field or a
\* file changed, the dialog closed.
UserEvent == uiOps' # uiOps

\* The step that ends a flow with success.
FlowSucceeds == pc = "insertWait" /\ pc' = "idle" /\ insertFailedAt' = 0

\* C30: a flow works on the entries as they were at the submit. The submit
\* takes a copy which only the next submit replaces and no user event
\* touches, a user event changes nothing of the flow, every insert request and
\* every DocumentItem of the flow is made from the copy, uploads are requested
\* for entries of the copy that have a file, and the step that ends a flow
\* with success stores the documents of the copy and leaves one blank entry.
C30_FlowWorksOnSubmittedEntries ==
  /\ [][ fEntries' # fEntries => handleSubmit /\ fEntries' = entries ]_vars
  /\ [][ UserEvent =>
           UNCHANGED <<pc, idx, fEntries, uploadResults, newDocuments, documents,
                       trace, insertReqs, insertResps, sheet, isSubmitting>> ]_vars
  /\ [](/\ \A k \in DOMAIN insertReqs :
             insertReqs[k] = SheetData(fEntries[k], FileUrlOf(uploadResults, k))
        /\ \A k \in DOMAIN newDocuments :
             newDocuments[k] = DocumentItem(fEntries[k], FileUrlOf(uploadResults, k),
                                            insertResps[k])
        /\ \A a \in DOMAIN trace :
             /\ trace[a].index \in DOMAIN fEntries
             /\ trace[a].kind = "upload" => HasUpload(fEntries[trace[a].index], folderId))
  /\ [][ FlowSucceeds =>
           /\ entries' = << BlankEntry(1) >>
           /\ Len(newDocuments') = Len(fEntries)
           /\ documents' = documents \o newDocuments' ]_vars

\* Witness of C30: an entry was added to the form while the flow was waiting
\* for an upload, which then failed (its toast replaced the one of the added
\* entry); the flow went on and has issued the insert requests of the entries
\* as submitted, one fewer than the form now holds.
C30_Witness ==
  /\ flows = 1 /\ uiOps = 1 /\ faults = 1
  /\ Len(fEntries) >= 2 /\ Len(entries) = Len(fEntries) + 1
  /\ toast \in { "Failed to upload, saving without file.",
                 "File upload failed. Saving without file." }
  /\ pc = "insertWait" /\ idx = Len(fEntries)
  /\ Len(insertReqs) = Len(fEntries)

====
